---- MODULE Spec2Model ----
(***************************************************************************)
(* The recording-session coordinator of the meeting note taker extension:  *)
(* the background service worker (src/extension/background.js) that drives *)
(* START_RECORDING / STOP_RECORDING, owns the WebSocket to the API server  *)
(* and persists the session data, together with the offscreen document it  *)
(* creates for the audio capture (src/extension/offscreen.js).             *)
(*                                                                         *)
(* Every run of an async function is a "call" with a program counter that  *)
(* names the await it is suspended at.  One action is one task of the      *)
(* service worker's event loop: the handler that the platform invokes plus *)
(* every promise continuation (microtask) it makes runnable, up to the     *)
(* next await on a platform call, a socket event or a timer.               *)
(*                                                                         *)
(* Spec         the commands and the WebSocket events of the background    *)
(* SpecSession  one session of them, with GET_STATUS queries               *)
(* SpecCapture  the inside of the offscreen document and the audio path    *)
(* SpecPopup    a Recording session watched by the popup                   *)
(* SpecRelay    one session with the offscreen document inside             *)
(* SpecFrames   one session with every frame of the service                *)
(***************************************************************************)
EXTENDS Integers, Sequences, FiniteSets, TLC

\* ---------------------------------------------------------------- bounds
MaxCalls == 3      \* START_RECORDING / STOP_RECORDING commands in one run
MaxSockets == 2    \* WebSocket objects created in one run
MaxEvents == 2     \* transcript / notes / final_notes frames of the service

MaxCaptures == 2   \* START_CAPTURE messages in one run
MaxRecorders == 3  \* MediaRecorder objects created in one run

MaxPings == 1      \* ping frames sent on one WebSocket

Calls == 1..MaxCalls
Sockets == 1..MaxSockets
Captures == 1..MaxCaptures
Recorders == 1..MaxRecorders

VARIABLES
    isRecording,      \* background.js:11
    ws,               \* background.js:12   0 is null, else a socket
    wsAuthResolved,   \* background.js:245
    transcriptLines,  \* background.js:15
    currentNotes,     \* background.js:16   0 is null, else a notes document
    storage,          \* chrome.storage.local: transcript, notes, isRecording
    sockets,          \* the WebSocket objects created so far
    calls,            \* the runs of startRecording / stopRecording
    offscreenDoc,     \* an offscreen document exists
    capturing,        \* offscreen.js:9     mediaStream is not null
    nEvents,          \* frames with a payload sent by the service so far
    broadcast,        \* background.js:345  messages broadcast by the last task
    statusReply       \* background.js:59   response of the last task to GET_STATUS

\* the offscreen document (src/extension/offscreen.js)
VARIABLES
    captures,           \* the runs of startCapture
    mediaStream,        \* offscreen.js:9    0 is null, else a stream
    mediaRecorder,      \* offscreen.js:8    0 is null, else a recorder
    recordingInterval,  \* offscreen.js:11   0 is null, else the timer of a recorder
    audioContext,       \* offscreen.js:10   an AudioContext is referenced
    recorders,          \* the MediaRecorder objects created so far
    liveStreams,        \* the streams whose tracks have not been stopped
    finalized,          \* the recorders in the order in which they were stopped
    audioData,          \* AUDIO_DATA messages on their way to the background
    lastCaptureMsg      \* offscreen.js:14  the last message the listener handled

captureVars == <<captures, mediaStream, mediaRecorder, recordingInterval,
                 audioContext, recorders, liveStreams, finalized, audioData,
                 lastCaptureMsg>>

\* the popup (the popup script, background.js:358-914)
VARIABLES
    popupOpen,          \* a popup is open and its listeners are registered
    popupLines,         \* background.js:368  transcriptLines of the popup
    popupNotes,         \* background.js:369  currentNotes of the popup, 0 is null
    popupInbox,         \* broadcasts on their way to the popup
    storageChanges,     \* chrome.storage.onChanged events on their way to it
    statusInFlight      \* the GET_STATUS response on its way to checkStatus

popupVars == <<popupOpen, popupLines, popupNotes, popupInbox,
               storageChanges, statusInFlight>>

vars == <<isRecording, ws, wsAuthResolved, transcriptLines, currentNotes,
          storage, sockets, calls, offscreenDoc, capturing, nEvents,
          broadcast, statusReply, captureVars, popupVars>>

\* ------------------------------------------------------------ data
NoSocket ==
    [state |-> "none", owner |-> 0, sent |-> <<>>, reply |-> "none",
     finals |-> 0, listeners |-> <<>>]

NoCall ==
    [kind |-> "none", pc |-> "idle", sock |-> 0, timer |-> "none",
     result |-> "none", notes |-> 0, cap |-> "none", alone |-> FALSE]

\* a message of broadcastToPopup: STATUS (arg 1 'Recording...', 0 'Recording
\* stopped'), CONNECTION_STATUS (arg 1 connected, 0 not), ERROR, TRANSCRIPT
\* (arg the line), NOTES_UPDATE (arg the notes document)
Message(type, arg) == [type |-> type, arg |-> arg]

\* a MediaRecorder: its state, the stream it records, its rotation timer
\* (offscreen.js:115) and what became of the chunk it recorded: "queued"
\* when its stop event is queued, "encoding" during blobToBase64, "sent"
\* once the AUDIO_DATA message is sent, "dropped" when there was nothing to
\* send or the read failed
NoRecorder ==
    [state |-> "none", stream |-> 0, timer |-> "none", chunk |-> "none"]

\* the task sent no response to a GET_STATUS
NoReply ==
    [isRecording |-> FALSE, connected |-> "none", transcript |-> <<>>,
     notes |-> 0]

RECURSIVE Count(_, _)
Count(seq, x) ==
    IF seq = <<>> THEN 0
    ELSE (IF Head(seq) = x THEN 1 ELSE 0) + Count(Tail(seq), x)

RECURSIVE Without(_, _)
Without(seq, x) ==
    IF seq = <<>> THEN <<>>
    ELSE IF Head(seq) = x THEN Without(Tail(seq), x)
    ELSE <<Head(seq)>> \o Without(Tail(seq), x)

InProgress(c) == calls[c].pc \notin {"idle", "done"}

\* the next command takes the lowest unused call slot
NextCall == CHOOSE c \in Calls : calls[c].pc = "idle" /\ \A d \in 1..(c - 1) : calls[d].pc # "idle"

\* new WebSocket(...) is the lowest unused socket
NextSocket == CHOOSE s \in Sockets : sockets[s].state = "none" /\ \A t \in 1..(s - 1) : sockets[t].state # "none"

Init ==
    /\ isRecording = FALSE
    /\ ws = 0
    /\ wsAuthResolved = FALSE
    /\ transcriptLines = <<>>
    /\ currentNotes = 0
    /\ storage = [transcript |-> <<>>, notes |-> 0, isRecording |-> FALSE]
    /\ sockets = [s \in Sockets |-> NoSocket]
    /\ calls = [c \in Calls |-> NoCall]
    /\ offscreenDoc = FALSE
    /\ capturing = FALSE
    /\ nEvents = 0
    /\ broadcast = <<>>
    /\ statusReply = NoReply
    /\ captures = [k \in Captures |-> "idle"]
    /\ mediaStream = 0
    /\ mediaRecorder = 0
    /\ recordingInterval = 0
    /\ audioContext = FALSE
    /\ recorders = [r \in Recorders |-> NoRecorder]
    /\ liveStreams = {}
    /\ finalized = <<>>
    /\ audioData = <<>>
    /\ lastCaptureMsg = "none"
    /\ popupOpen = FALSE
    /\ popupLines = <<>>
    /\ popupNotes = 0
    /\ popupInbox = <<>>
    /\ storageChanges = <<>>
    /\ statusInFlight = NoReply

\* ------------------------------------------------ promise plumbing
\* what a task that is not the GET_STATUS handler sends to the popup: the
\* messages it passes to broadcastToPopup, in order
broadcastToPopup(msgs) ==
    /\ broadcast' = msgs
    /\ statusReply' = NoReply

\* return <result> from startRecording / stopRecording (handleMessage then
\* calls sendResponse)
Return(cs, c, res) ==
    [cs EXCEPT ![c].pc = "done", ![c].result = res]

\* resolve(v) of the promise of connectWebSocket of call c, followed by the
\* continuation of startRecording after "await connectWebSocket()": only
\* the first resolve of a promise has an effect, so the timer of a resolved
\* attempt is no longer followed
resolveConnect(cs, c, v) ==
    IF cs[c].pc # "connect" THEN cs
    ELSE IF v THEN [cs EXCEPT ![c].pc = "getContexts", ![c].timer = "none"]
    ELSE Return([cs EXCEPT ![c].timer = "none"], c, "ConnectionFailed")

\* "if (ws) { ws.close(); ws = null; }" of stopRecording
closeWebSocket(socks, w) ==
    IF w = 0 THEN socks ELSE [socks EXCEPT ![w].state = "closed"]

\* ------------------------------------------------ startRecording
\* a startRecording without "if (isRecording) return ..."
startRecordingUnguarded ==
    /\ \E c \in Calls : calls[c].pc = "idle"
    /\ calls' = [calls EXCEPT ![NextCall].kind = "start",
                              ![NextCall].alone = \A d \in Calls : ~InProgress(d),
                              ![NextCall].pc = "tabQuery"]
    /\ broadcastToPopup(<<>>)
    /\ UNCHANGED <<isRecording, ws, wsAuthResolved, transcriptLines,
                   currentNotes, storage, sockets, offscreenDoc, capturing,
                   nEvents>>

\* START_RECORDING arrives: handleMessage calls startRecording, which runs
\* to "await chrome.tabs.query" unless isRecording is set
startRecording ==
    /\ \E c \in Calls : calls[c].pc = "idle"
    /\ LET c == NextCall
           started == [calls EXCEPT ![c].kind = "start",
                                    ![c].alone = \A d \in Calls : ~InProgress(d)]
       IN calls' = IF isRecording
                   THEN Return(started, c, "AlreadyRecording")
                   ELSE [started EXCEPT ![c].pc = "tabQuery"]
    /\ broadcastToPopup(<<>>)
    /\ UNCHANGED <<isRecording, ws, wsAuthResolved, transcriptLines,
                   currentNotes, storage, sockets, offscreenDoc, capturing,
                   nEvents>>

\* chrome.tabs.query answers; with a tab, connectWebSocket runs up to the
\* return of its promise: it creates the socket, stores it in ws and arms
\* the 10 s timer.  urlOk = FALSE is "new WebSocket" throwing on apiUrl,
\* which resolves the promise with false before ws is assigned.
connectWebSocket(c, hasTab, urlOk) ==
    /\ calls[c].kind = "start" /\ calls[c].pc = "tabQuery"
    /\ IF ~hasTab
       THEN /\ calls' = Return(calls, c, "NoActiveTab")
            /\ UNCHANGED <<ws, sockets>>
       ELSE IF ~urlOk
       THEN /\ calls' = Return(calls, c, "ConnectionFailed")
            /\ UNCHANGED <<ws, sockets>>
       ELSE /\ \E s \in Sockets : sockets[s].state = "none"
            /\ LET s == NextSocket
               IN /\ sockets' = [sockets EXCEPT ![s].state = "connecting",
                                                ![s].owner = c]
                  /\ ws' = s
                  /\ calls' = [calls EXCEPT ![c].pc = "connect",
                                            ![c].sock = s,
                                            ![c].timer = "pending"]
    /\ broadcastToPopup(<<>>)
    /\ UNCHANGED <<isRecording, wsAuthResolved, transcriptLines,
                   currentNotes, storage, offscreenDoc, capturing, nEvents>>

\* ws.onopen of socket s: the auth frame goes to whatever the variable ws
\* holds now.  send() throws on a CONNECTING socket (and on null), and
\* drops the frame on a closed one.
onopen(s) ==
    /\ sockets[s].state = "connecting"
    /\ LET opened == [sockets EXCEPT ![s].state = "open"]
       IN sockets' = IF ws # 0 /\ opened[ws].state = "open"
                     THEN [opened EXCEPT ![ws].sent = Append(@, "auth")]
                     ELSE opened
    /\ broadcastToPopup(<<>>)
    /\ UNCHANGED <<isRecording, ws, wsAuthResolved, transcriptLines,
                   currentNotes, storage, calls, offscreenDoc, capturing,
                   nEvents>>

\* a ws.onerror that ends the session
onerrorEndsSession(s) ==
    /\ sockets[s].state \in {"connecting", "open"}
    /\ sockets' = [sockets EXCEPT ![s].state = "closed"]
    /\ calls' = resolveConnect(calls, sockets[s].owner, FALSE)
    /\ isRecording' = FALSE
    /\ broadcastToPopup(<<Message("ERROR", 0), Message("CONNECTION_STATUS", 0)>>)
    /\ UNCHANGED <<ws, wsAuthResolved, transcriptLines, currentNotes,
                   storage, offscreenDoc, capturing, nEvents>>

\* The connection of socket s failed or broke.  The error and the close
\* event are fired by one task: ws.onerror broadcasts ERROR and calls
\* resolve(false) of the attempt that created s, then ws.onclose broadcasts
\* CONNECTION_STATUS.
onerror(s) ==
    /\ sockets[s].state \in {"connecting", "open"}
    /\ sockets' = [sockets EXCEPT ![s].state = "closed"]
    /\ calls' = resolveConnect(calls, sockets[s].owner, FALSE)
    /\ broadcastToPopup(<<Message("ERROR", 0), Message("CONNECTION_STATUS", 0)>>)
    /\ UNCHANGED <<isRecording, ws, wsAuthResolved, transcriptLines,
                   currentNotes, storage, offscreenDoc, capturing, nEvents>>

\* ws.onclose of socket s, closed by the service: a broadcast only
onclose(s) ==
    /\ sockets[s].state = "open"
    /\ sockets' = [sockets EXCEPT ![s].state = "closed"]
    /\ broadcastToPopup(<<Message("CONNECTION_STATUS", 0)>>)
    /\ UNCHANGED <<isRecording, ws, wsAuthResolved, transcriptLines,
                   currentNotes, storage, calls, offscreenDoc, capturing,
                   nEvents>>

\* the 10 s timer of connectWebSocket of call c fires: it reads the
\* variable ws (a TypeError when ws is null) and resolves with false only
\* when that socket is not OPEN
connectTimeout(c) ==
    /\ calls[c].pc = "connect" /\ calls[c].timer = "pending"
    /\ LET fired == [calls EXCEPT ![c].timer = "fired"]
       IN calls' = IF ws # 0 /\ sockets[ws].state # "open"
                   THEN resolveConnect(fired, c, FALSE)
                   ELSE fired
    /\ broadcastToPopup(<<>>)
    /\ UNCHANGED <<isRecording, ws, wsAuthResolved, transcriptLines,
                   currentNotes, storage, sockets, offscreenDoc, capturing,
                   nEvents>>

\* handleWebSocketMessage, case 'auth_success' / case 'error' with a
\* message that includes 'API key', on the frame with which the service
\* answers the auth frame of socket s
handleAuthReply(s, ok) ==
    /\ sockets[s].state = "open"
    /\ Count(sockets[s].sent, "auth") > 0
    /\ sockets[s].reply = "none"
    /\ sockets' = [sockets EXCEPT ![s].reply = IF ok THEN "success" ELSE "error"]
    /\ IF ~wsAuthResolved
       THEN /\ wsAuthResolved' = TRUE
            /\ calls' = resolveConnect(calls, sockets[s].owner, ok)
       ELSE UNCHANGED <<wsAuthResolved, calls>>
    /\ broadcastToPopup(IF ok THEN <<Message("CONNECTION_STATUS", 1)>>
                              ELSE <<Message("ERROR", 0)>>)
    /\ UNCHANGED <<isRecording, ws, transcriptLines, currentNotes, storage,
                   offscreenDoc, capturing, nEvents>>

\* setupOffscreenDocument: chrome.runtime.getContexts answers
setupOffscreenDocument(c) ==
    /\ calls[c].kind = "start" /\ calls[c].pc = "getContexts"
    /\ calls' = [calls EXCEPT ![c].pc =
                    IF offscreenDoc THEN "getStreamId" ELSE "createDoc"]
    /\ broadcastToPopup(<<>>)
    /\ UNCHANGED <<isRecording, ws, wsAuthResolved, transcriptLines,
                   currentNotes, storage, sockets, offscreenDoc, capturing,
                   nEvents>>

\* chrome.offscreen.createDocument answers: it rejects when a document
\* exists by now, and the catch of startRecording returns the error
createDocument(c) ==
    /\ calls[c].kind = "start" /\ calls[c].pc = "createDoc"
    /\ IF offscreenDoc
       THEN /\ calls' = Return(calls, c, "error")
            /\ UNCHANGED offscreenDoc
       ELSE /\ calls' = [calls EXCEPT ![c].pc = "getStreamId"]
            /\ offscreenDoc' = TRUE
    /\ broadcastToPopup(<<>>)
    /\ UNCHANGED <<isRecording, ws, wsAuthResolved, transcriptLines,
                   currentNotes, storage, sockets, capturing, nEvents>>

\* chrome.tabCapture.getMediaStreamId answers or rejects; on success the
\* START_CAPTURE message is sent
getMediaStreamId(c, ok) ==
    /\ calls[c].kind = "start" /\ calls[c].pc = "getStreamId"
    /\ calls' = IF ok THEN [calls EXCEPT ![c].pc = "startCapture"]
                ELSE Return(calls, c, "error")
    /\ broadcastToPopup(<<>>)
    /\ UNCHANGED <<isRecording, ws, wsAuthResolved, transcriptLines,
                   currentNotes, storage, sockets, offscreenDoc, capturing,
                   nEvents>>

\* the answer to START_CAPTURE.  sendMessage rejects when nothing received
\* the message; else the offscreen listener ran startCapture and answered
\* {success: true} ("started") or {success: false} ("failed", getUserMedia
\* rejected).  startRecording does not read the answer: it sets
\* isRecording, clears the session data and returns {success: true}.
startCaptureReply(c, out) ==
    /\ calls[c].kind = "start" /\ calls[c].pc = "startCapture"
    /\ IF ~offscreenDoc \/ out = "rejected"
       THEN /\ calls' = Return(calls, c, "error")
            /\ UNCHANGED <<isRecording, transcriptLines, currentNotes,
                           storage, capturing>>
       ELSE /\ capturing' = (capturing \/ out = "started")
            /\ isRecording' = TRUE
            /\ transcriptLines' = <<>>
            /\ currentNotes' = 0
            /\ storage' = [transcript |-> <<>>, notes |-> 0,
                           isRecording |-> TRUE]
            /\ calls' = Return([calls EXCEPT ![c].cap = out], c, "success")
    /\ broadcastToPopup(IF ~offscreenDoc \/ out = "rejected" THEN <<>>
                        ELSE <<Message("STATUS", 1)>>)
    /\ UNCHANGED <<ws, wsAuthResolved, sockets, offscreenDoc, nEvents>>

\* ------------------------------------------- handleWebSocketMessage
\* case 'transcript' on a frame received on socket s
handleTranscript(s) ==
    /\ sockets[s].state = "open" /\ sockets[s].reply = "success"
    /\ nEvents < MaxEvents
    /\ nEvents' = nEvents + 1
    /\ transcriptLines' = Append(transcriptLines, nEvents + 1)
    /\ storage' = [storage EXCEPT !.transcript = transcriptLines']
    /\ broadcastToPopup(<<Message("TRANSCRIPT", nEvents + 1)>>)
    /\ UNCHANGED <<isRecording, ws, wsAuthResolved, currentNotes, sockets,
                   calls, offscreenDoc, capturing>>

\* case 'notes' on a frame received on socket s
handleNotes(s) ==
    /\ sockets[s].state = "open" /\ sockets[s].reply = "success"
    /\ nEvents < MaxEvents
    /\ nEvents' = nEvents + 1
    /\ currentNotes' = nEvents + 1
    /\ storage' = [storage EXCEPT !.notes = currentNotes']
    /\ broadcastToPopup(<<Message("NOTES_UPDATE", nEvents + 1)>>)
    /\ UNCHANGED <<isRecording, ws, wsAuthResolved, transcriptLines,
                   sockets, calls, offscreenDoc, capturing>>

\* an error frame after which the session is no longer Recording
handleErrorEndsSession(s, apiKey) ==
    /\ sockets[s].state = "open" /\ sockets[s].reply = "success"
    /\ isRecording' = FALSE
    /\ broadcastToPopup(<<Message("ERROR", 0)>>)
    /\ UNCHANGED <<ws, wsAuthResolved, transcriptLines, currentNotes,
                   storage, sockets, calls, offscreenDoc, capturing, nEvents>>

\* case 'error' on a frame received on socket s after its auth_success:
\* the ERROR broadcast; a message that includes 'API key' (apiKey) also
\* resolves the connect attempt of s with false when wsAuthResolved is
\* still false
handleError(s, apiKey) ==
    /\ sockets[s].state = "open" /\ sockets[s].reply = "success"
    /\ IF ~wsAuthResolved /\ apiKey
       THEN /\ wsAuthResolved' = TRUE
            /\ calls' = resolveConnect(calls, sockets[s].owner, FALSE)
       ELSE UNCHANGED <<wsAuthResolved, calls>>
    /\ broadcastToPopup(<<Message("ERROR", 0)>>)
    /\ UNCHANGED <<isRecording, ws, transcriptLines, currentNotes, storage,
                   sockets, offscreenDoc, capturing, nEvents>>

\* the 30 s heartbeat timer fires: a ping frame goes to ws when it is an
\* OPEN socket
ping ==
    /\ ws # 0 /\ sockets[ws].state = "open"
    /\ Count(sockets[ws].sent, "ping") < MaxPings
    /\ sockets' = [sockets EXCEPT ![ws].sent = Append(@, "ping")]
    /\ broadcastToPopup(<<>>)
    /\ UNCHANGED <<isRecording, ws, wsAuthResolved, transcriptLines,
                   currentNotes, storage, calls, offscreenDoc, capturing,
                   nEvents>>

\* case 'pong' on a frame received on socket s, with which the service
\* answers a ping: nothing
handlePong(s) ==
    /\ sockets[s].state = "open"
    /\ Count(sockets[s].sent, "ping") > 0
    /\ broadcastToPopup(<<>>)
    /\ UNCHANGED <<isRecording, ws, wsAuthResolved, transcriptLines,
                   currentNotes, storage, sockets, calls, offscreenDoc,
                   capturing, nEvents>>

\* ------------------------------------------------ stopRecording
\* STOP_RECORDING arrives: handleMessage calls stopRecording, which runs
\* to "await chrome.runtime.sendMessage(STOP_CAPTURE)" when isRecording
stopRecording ==
    /\ \E c \in Calls : calls[c].pc = "idle"
    /\ LET c == NextCall
           started == [calls EXCEPT ![c].kind = "stop",
                                    ![c].alone = \A d \in Calls : ~InProgress(d)]
       IN calls' = IF ~isRecording
                   THEN Return(started, c, "NotRecording")
                   ELSE [started EXCEPT ![c].pc = "stopCapture"]
    /\ broadcastToPopup(<<>>)
    /\ UNCHANGED <<isRecording, ws, wsAuthResolved, transcriptLines,
                   currentNotes, storage, sockets, offscreenDoc, capturing,
                   nEvents>>

\* the answer to STOP_CAPTURE.  sendMessage rejects when nothing received
\* the message (the catch clears isRecording and returns the error); else
\* the offscreen listener ran stopCapture, and stopRecording goes on: with
\* ws OPEN it sends the stop frame, arms the 10 s timer and listens for
\* final_notes on ws; otherwise it closes ws and calls
\* closeOffscreenDocument.
stopCaptureReply(c, ok) ==
    /\ calls[c].kind = "stop" /\ calls[c].pc = "stopCapture"
    /\ IF ~offscreenDoc \/ ~ok
       THEN /\ isRecording' = FALSE
            /\ calls' = Return(calls, c, "error")
            /\ UNCHANGED <<ws, sockets, capturing>>
       ELSE /\ capturing' = FALSE
            /\ UNCHANGED isRecording
            /\ IF ws # 0 /\ sockets[ws].state = "open"
               THEN /\ sockets' = [sockets EXCEPT
                                      ![ws].sent = Append(@, "stop"),
                                      ![ws].listeners = Append(@, c)]
                    /\ calls' = [calls EXCEPT ![c].pc = "waitFinal",
                                              ![c].sock = ws,
                                              ![c].timer = "pending"]
                    /\ UNCHANGED ws
               ELSE /\ sockets' = closeWebSocket(sockets, ws)
                    /\ ws' = 0
                    /\ calls' = [calls EXCEPT ![c].pc = "stopGetContexts"]
    /\ broadcastToPopup(<<>>)
    /\ UNCHANGED <<wsAuthResolved, transcriptLines, currentNotes, storage,
                   offscreenDoc, nEvents>>

\* the 10 s timer of the final-notes wait of call c fires: resolve(null),
\* then stopRecording closes ws and calls closeOffscreenDocument.  The
\* listener stays on the socket; once the promise is resolved it can no
\* longer change anything, so it is dropped here.
finalNotesTimeout(c) ==
    /\ calls[c].pc = "waitFinal" /\ calls[c].timer = "pending"
    /\ LET dropped == [sockets EXCEPT ![calls[c].sock].listeners = Without(@, c)]
       IN sockets' = closeWebSocket(dropped, ws)
    /\ ws' = 0
    /\ calls' = [calls EXCEPT ![c].pc = "stopGetContexts",
                              ![c].timer = "fired", ![c].notes = 0]
    /\ broadcastToPopup(<<>>)
    /\ UNCHANGED <<isRecording, wsAuthResolved, transcriptLines,
                   currentNotes, storage, offscreenDoc, capturing, nEvents>>

\* the message listeners of the final-notes waits on one final_notes
\* event, in the order they were added.  Each is a callback of its own:
\* the microtasks it queued run before the next listener is called.
\*   handler:      clearTimeout(timeout); ws.removeEventListener(...) (a
\*                 TypeError when ws is null: resolve is not reached);
\*                 resolve(data)
\*   continuation: finalNotes = data; if (ws) { ws.close(); ws = null; }
\*                 then closeOffscreenDocument is called
\* st is [ws, sockets, calls]; n is the notes document of the frame.
RECURSIVE finalNotesHandlers(_, _, _)
finalNotesHandlers(ls, st, n) ==
    IF ls = <<>> THEN st
    ELSE LET c == Head(ls)
             cleared == [st.calls EXCEPT ![c].timer =
                            IF @ = "pending" THEN "cleared" ELSE @]
         IN IF st.ws = 0
            THEN finalNotesHandlers(Tail(ls), [st EXCEPT !.calls = cleared], n)
            ELSE LET removed == [st.sockets EXCEPT
                                    ![st.ws].listeners = Without(@, c)]
                 IN IF cleared[c].pc # "waitFinal"
                    THEN finalNotesHandlers(Tail(ls),
                            [st EXCEPT !.calls = cleared,
                                       !.sockets = removed], n)
                    ELSE finalNotesHandlers(Tail(ls),
                            [ws |-> 0,
                             sockets |-> closeWebSocket(removed, st.ws),
                             calls |-> [cleared EXCEPT
                                           ![c].pc = "stopGetContexts",
                                           ![c].notes = n]], n)

\* a final_notes frame is received on socket s, in answer to a stop frame:
\* ws.onmessage calls handleWebSocketMessage, which has no case for it,
\* then the listeners of the final-notes waits run
handleFinalNotes(s) ==
    /\ sockets[s].state = "open"
    /\ sockets[s].finals < Count(sockets[s].sent, "stop")
    /\ nEvents < MaxEvents
    /\ nEvents' = nEvents + 1
    /\ LET counted == [sockets EXCEPT ![s].finals = @ + 1]
           st == finalNotesHandlers(sockets[s].listeners,
                    [ws |-> ws, sockets |-> counted, calls |-> calls],
                    nEvents + 1)
       IN /\ ws' = st.ws
          /\ sockets' = st.sockets
          /\ calls' = st.calls
    /\ broadcastToPopup(<<>>)
    /\ UNCHANGED <<isRecording, wsAuthResolved, transcriptLines,
                   currentNotes, storage, offscreenDoc, capturing>>

\* closeOffscreenDocument: chrome.runtime.getContexts answers.  Without a
\* document stopRecording finishes: it clears isRecording and returns
\* {success: true, notes}.
closeOffscreenDocument(c) ==
    /\ calls[c].kind = "stop" /\ calls[c].pc = "stopGetContexts"
    /\ IF offscreenDoc
       THEN /\ calls' = [calls EXCEPT ![c].pc = "closeDoc"]
            /\ UNCHANGED isRecording
       ELSE /\ calls' = Return(calls, c, "success")
            /\ isRecording' = FALSE
    /\ broadcastToPopup(IF offscreenDoc THEN <<>>
                        ELSE <<Message("STATUS", 0), Message("CONNECTION_STATUS", 0)>>)
    /\ UNCHANGED <<ws, wsAuthResolved, transcriptLines, currentNotes,
                   storage, sockets, offscreenDoc, capturing, nEvents>>

\* chrome.offscreen.closeDocument answers: it rejects when the document is
\* gone by now (the catch clears isRecording and returns the error); else
\* the document and the capture in it are gone and stopRecording finishes
closeDocument(c) ==
    /\ calls[c].kind = "stop" /\ calls[c].pc = "closeDoc"
    /\ isRecording' = FALSE
    /\ IF ~offscreenDoc
       THEN /\ calls' = Return(calls, c, "error")
            /\ UNCHANGED <<offscreenDoc, capturing>>
       ELSE /\ calls' = Return(calls, c, "success")
            /\ offscreenDoc' = FALSE
            /\ capturing' = FALSE
    /\ broadcastToPopup(IF ~offscreenDoc THEN <<>>
                        ELSE <<Message("STATUS", 0), Message("CONNECTION_STATUS", 0)>>)
    /\ UNCHANGED <<ws, wsAuthResolved, transcriptLines, currentNotes,
                   storage, sockets, nEvents>>

\* ------------------------------------------------ handleMessage
\* a GET_STATUS that is answered only once no command is in progress
getStatusWhenIdle ==
    /\ \A c \in Calls : ~InProgress(c)
    /\ statusReply' =
          [isRecording |-> isRecording,
           connected |-> IF ws = 0 THEN "null"
                         ELSE IF sockets[ws].state = "open" THEN "true"
                         ELSE "false",
           transcript |-> transcriptLines,
           notes |-> currentNotes]
    /\ broadcast' = <<>>
    /\ UNCHANGED <<isRecording, ws, wsAuthResolved, transcriptLines,
                   currentNotes, storage, sockets, calls, offscreenDoc,
                   capturing, nEvents>>

\* case 'GET_STATUS': the response is built from the variables as they are
\* when the message is handled.  "ws && ..." is null while ws is null.
GET_STATUS ==
    /\ statusReply' =
          [isRecording |-> isRecording,
           connected |-> IF ws = 0 THEN "null"
                         ELSE IF sockets[ws].state = "open" THEN "true"
                         ELSE "false",
           transcript |-> transcriptLines,
           notes |-> currentNotes]
    /\ broadcast' = <<>>
    /\ UNCHANGED <<isRecording, ws, wsAuthResolved, transcriptLines,
                   currentNotes, storage, sockets, calls, offscreenDoc,
                   capturing, nEvents>>

\* ------------------------------------------------ offscreen document
\* the variables of the background other than "capturing", which the
\* offscreen document decides
sessionVars == <<isRecording, ws, wsAuthResolved, transcriptLines,
                 currentNotes, storage, sockets, calls, offscreenDoc,
                 nEvents, broadcast, statusReply>>

\* the variables of the offscreen document itself
offscreenVars == <<captures, mediaStream, mediaRecorder, recordingInterval,
                   audioContext, recorders, liveStreams, finalized,
                   lastCaptureMsg>>

\* "new MediaRecorder" is the lowest unused recorder
NextRecorder == CHOOSE r \in Recorders : recorders[r].state = "none" /\ \A q \in 1..(r - 1) : recorders[q].state # "none"

NextStartCapture == CHOOSE k \in Captures : captures[k] = "idle" /\ \A j \in 1..(k - 1) : captures[j] # "idle"

\* recorder.stop() / mediaRecorder.stop(): a recording recorder becomes
\* inactive at once and the task that fires dataavailable and stop is
\* queued; on an inactive recorder nothing happens.
\* st is [mediaRecorder, recordingInterval, recorders, finalized].
stopRecorder(st, r) ==
    IF st.recorders[r].state # "recording" THEN st
    ELSE [st EXCEPT !.recorders[r].state = "inactive",
                    !.recorders[r].chunk = "queued",
                    !.finalized = Append(@, r)]

\* startRecordingParams() with stream in mediaStream: without a stream it
\* returns; else it creates recorder r on the stream, starts it, stores it
\* in mediaRecorder and arms its 3 s timer, stored in recordingInterval
startRecordingParams(st, stream, r) ==
    IF stream = 0 THEN st
    ELSE [st EXCEPT !.recorders[r] = [state |-> "recording",
                                      stream |-> stream,
                                      timer |-> "pending",
                                      chunk |-> "none"],
                    !.mediaRecorder = r,
                    !.recordingInterval = r]

\* the offscreen listener receives START_CAPTURE: startCapture runs to
\* "await navigator.mediaDevices.getUserMedia"
START_CAPTURE ==
    /\ offscreenDoc
    /\ \E k \in Captures : captures[k] = "idle"
    /\ captures' = [captures EXCEPT ![NextStartCapture] = "getUserMedia"]
    /\ lastCaptureMsg' = "START_CAPTURE"
    /\ UNCHANGED <<mediaStream, mediaRecorder, recordingInterval,
                   audioContext, recorders, liveStreams, finalized,
                   audioData, capturing>>

\* getUserMedia of run k of startCapture answers.  Rejected, startCapture
\* throws and the listener answers {success: false}.  Else the stream is
\* assigned to mediaStream, a new AudioContext to audioContext,
\* startRecordingParams is called and the listener answers {success: true}.
startCapture(k, ok) ==
    /\ captures[k] = "getUserMedia"
    /\ IF ~ok
       THEN /\ captures' = [captures EXCEPT ![k] = "failed"]
            /\ UNCHANGED <<mediaStream, mediaRecorder, recordingInterval,
                           audioContext, recorders, liveStreams, capturing>>
       ELSE /\ \E r \in Recorders : recorders[r].state = "none"
            /\ LET st == startRecordingParams(
                            [mediaRecorder |-> mediaRecorder,
                             recordingInterval |-> recordingInterval,
                             recorders |-> recorders,
                             finalized |-> finalized], k, NextRecorder)
               IN /\ mediaRecorder' = st.mediaRecorder
                  /\ recordingInterval' = st.recordingInterval
                  /\ recorders' = st.recorders
            /\ captures' = [captures EXCEPT ![k] = "done"]
            /\ mediaStream' = k
            /\ liveStreams' = liveStreams \cup {k}
            /\ audioContext' = TRUE
            /\ capturing' = TRUE
    /\ UNCHANGED <<finalized, audioData, lastCaptureMsg>>

\* the 3 s timer armed by the startRecordingParams that created recorder r
\* fires: "if (mediaStream) { recorder.stop(); startRecordingParams(); }"
rotate(r) ==
    /\ recorders[r].timer = "pending"
    /\ IF mediaStream = 0
       THEN /\ recorders' = [recorders EXCEPT ![r].timer = "fired"]
            /\ UNCHANGED <<mediaRecorder, recordingInterval, finalized>>
       ELSE /\ \E q \in Recorders : recorders[q].state = "none"
            /\ LET fired == [mediaRecorder |-> mediaRecorder,
                             recordingInterval |-> recordingInterval,
                             recorders |-> [recorders EXCEPT ![r].timer = "fired"],
                             finalized |-> finalized]
                   st == startRecordingParams(stopRecorder(fired, r),
                                              mediaStream, NextRecorder)
               IN /\ mediaRecorder' = st.mediaRecorder
                  /\ recordingInterval' = st.recordingInterval
                  /\ recorders' = st.recorders
                  /\ finalized' = st.finalized
    /\ UNCHANGED <<captures, mediaStream, audioContext, liveStreams,
                   audioData, capturing, lastCaptureMsg>>

\* stopCapture without its last assignment "mediaRecorder = null"
stopCaptureKeepsRecorder ==
    /\ offscreenDoc
    /\ LET cleared == IF recordingInterval = 0 THEN recorders
                      ELSE [recorders EXCEPT ![recordingInterval].timer =
                               IF @ = "pending" THEN "cleared" ELSE @]
           st0 == [mediaRecorder |-> mediaRecorder,
                   recordingInterval |-> 0,
                   recorders |-> cleared,
                   finalized |-> finalized]
           st == IF mediaRecorder = 0 THEN st0
                 ELSE stopRecorder(st0, mediaRecorder)
       IN /\ recorders' = st.recorders
          /\ finalized' = st.finalized
    /\ recordingInterval' = 0
    /\ liveStreams' = liveStreams \ {mediaStream}
    /\ mediaStream' = 0
    /\ audioContext' = FALSE
    /\ capturing' = FALSE
    /\ lastCaptureMsg' = "STOP_CAPTURE"
    /\ UNCHANGED <<mediaRecorder, captures, audioData>>

\* the offscreen listener receives STOP_CAPTURE: stopCapture(), then it
\* answers {success: true}
stopCapture ==
    /\ offscreenDoc
    /\ LET cleared == IF recordingInterval = 0 THEN recorders
                      ELSE [recorders EXCEPT ![recordingInterval].timer =
                               IF @ = "pending" THEN "cleared" ELSE @]
           st0 == [mediaRecorder |-> mediaRecorder,
                   recordingInterval |-> 0,
                   recorders |-> cleared,
                   finalized |-> finalized]
           st == IF mediaRecorder = 0 THEN st0
                 ELSE stopRecorder(st0, mediaRecorder)
       IN /\ recorders' = st.recorders
          /\ finalized' = st.finalized
    /\ recordingInterval' = 0
    /\ mediaRecorder' = 0
    /\ liveStreams' = liveStreams \ {mediaStream}
    /\ mediaStream' = 0
    /\ audioContext' = FALSE
    /\ capturing' = FALSE
    /\ lastCaptureMsg' = "STOP_CAPTURE"
    /\ UNCHANGED <<captures, audioData>>

\* every track of the stream of recorder r was stopped by a stopCapture
\* that did not stop r itself: the recorder becomes inactive and the task
\* that fires dataavailable and stop is queued
onTracksEnded(r) ==
    /\ recorders[r].state = "recording"
    /\ recorders[r].stream \notin liveStreams
    /\ recorders' = [recorders EXCEPT ![r].state = "inactive",
                                      ![r].chunk = "queued"]
    /\ finalized' = Append(finalized, r)
    /\ UNCHANGED <<captures, mediaStream, mediaRecorder, recordingInterval,
                   audioContext, liveStreams, audioData, capturing,
                   lastCaptureMsg>>

\* the dataavailable and stop events of recorder r, in the order in which
\* the recorders were stopped: recorder.onstop runs to "await
\* blobToBase64(blob)" when data was recorded, else it sends nothing
onstop(r, hasData) ==
    /\ recorders[r].chunk = "queued"
    /\ \A i \in 1..Len(finalized) :
          recorders[finalized[i]].chunk = "queued"
             => \E j \in 1..i : finalized[j] = r
    /\ recorders' = [recorders EXCEPT ![r].chunk =
                        IF hasData THEN "encoding" ELSE "dropped"]
    /\ UNCHANGED <<captures, mediaStream, mediaRecorder, recordingInterval,
                   audioContext, liveStreams, finalized, audioData,
                   capturing, lastCaptureMsg>>

\* the FileReader of the blobToBase64 of the chunk of recorder r is done:
\* onloadend resolves and recorder.onstop sends the AUDIO_DATA message;
\* onerror rejects and nothing is sent
blobToBase64(r, ok) ==
    /\ recorders[r].chunk = "encoding"
    /\ recorders' = [recorders EXCEPT ![r].chunk =
                        IF ok THEN "sent" ELSE "dropped"]
    /\ audioData' = IF ok THEN Append(audioData, r) ELSE audioData
    /\ UNCHANGED <<captures, mediaStream, mediaRecorder, recordingInterval,
                   audioContext, liveStreams, finalized, capturing,
                   lastCaptureMsg>>

\* the audio frame made of the chunk of recorder r
AudioFrame(r) == "audio" \o ToString(r)

\* an AUDIO_DATA listener that drops a chunk once the stop frame was sent
audioDataDroppedAfterStop ==
    /\ audioData # <<>>
    /\ audioData' = Tail(audioData)
    /\ sockets' = IF /\ ws # 0 /\ sockets[ws].state = "open"
                     /\ Count(sockets[ws].sent, "stop") = 0
                  THEN [sockets EXCEPT ![ws].sent =
                           Append(@, AudioFrame(Head(audioData)))]
                  ELSE sockets
    /\ broadcastToPopup(<<>>)
    /\ UNCHANGED <<isRecording, ws, wsAuthResolved, transcriptLines,
                   currentNotes, storage, calls, offscreenDoc, capturing,
                   nEvents>>

\* the background listener receives the oldest AUDIO_DATA message and
\* forwards it when ws is an OPEN socket
AUDIO_DATA ==
    /\ audioData # <<>>
    /\ audioData' = Tail(audioData)
    /\ sockets' = IF ws # 0 /\ sockets[ws].state = "open"
                  THEN [sockets EXCEPT ![ws].sent =
                           Append(@, AudioFrame(Head(audioData)))]
                  ELSE sockets
    /\ broadcastToPopup(<<>>)
    /\ UNCHANGED <<isRecording, ws, wsAuthResolved, transcriptLines,
                   currentNotes, storage, calls, offscreenDoc, capturing,
                   nEvents>>

\* ------------------------------------------------ popup
\* the chrome.storage.onChanged event of one chrome.storage.local.set that
\* changed the persisted state from old to new: the keys of transcript and
\* notes whose value changed, with their new values (the popup listener
\* reads changes.transcript and changes.notes only)
Change(old, new) ==
    [keys |-> {k \in {"transcript", "notes"} : new[k] # old[k]},
     lines |-> new.transcript, notes |-> new.notes]

\* the events on their way to an open popup after that set
Changed(queue, old, new) ==
    IF Change(old, new).keys # {} THEN Append(queue, Change(old, new))
    ELSE queue

\* renderNotes(notes) of the popup on the persisted state st: without a
\* document it shows the empty state and returns; else it renders the
\* document and ends with chrome.storage.local.set({ notes: notes })
renderNotes(st, notes) ==
    IF notes = 0 THEN st ELSE [st EXCEPT !.notes = notes]

\* what a task of the background sends to an open popup: its broadcasts, and
\* the onChanged event of its chrome.storage.local.set
notifyPopup ==
    /\ popupInbox' = IF popupOpen THEN popupInbox \o broadcast'
                     ELSE popupInbox
    /\ storageChanges' = IF popupOpen
                         THEN Changed(storageChanges, storage, storage')
                         ELSE storageChanges
    /\ UNCHANGED <<popupOpen, popupLines, popupNotes, statusInFlight>>

\* the popup is opened: its DOMContentLoaded handler runs to the answer of
\* chrome.storage.local.get, takes a non-empty persisted transcript and
\* the persisted notes (renderNotes writes them back unchanged), calls
\* checkStatus (which sends GET_STATUS) and registers its listeners
DOMContentLoaded ==
    /\ ~popupOpen
    /\ popupOpen' = TRUE
    /\ popupLines' = storage.transcript
    /\ popupNotes' = storage.notes
    /\ UNCHANGED <<popupInbox, storageChanges, statusInFlight>>
    /\ UNCHANGED <<sessionVars, capturing>>

\* the background handles the GET_STATUS of a checkStatus of the popup (of
\* DOMContentLoaded, or of the 3 s sync while the popup is recording)
sendStatus ==
    /\ popupOpen
    /\ statusInFlight = NoReply
    /\ GET_STATUS
    /\ statusInFlight' = statusReply'
    /\ UNCHANGED <<popupOpen, popupLines, popupNotes, popupInbox,
                   storageChanges>>

\* checkStatus after "await chrome.runtime.sendMessage(GET_STATUS)": a
\* non-empty transcript of the response replaces transcriptLines, the notes
\* of the response replace currentNotes and renderNotes persists them,
\* updateUI persists the isRecording of the response
checkStatus ==
    /\ popupOpen
    /\ statusInFlight # NoReply
    /\ popupLines' = IF statusInFlight.transcript # <<>>
                     THEN statusInFlight.transcript
                     ELSE popupLines
    /\ popupNotes' = IF statusInFlight.notes # 0 THEN statusInFlight.notes
                     ELSE popupNotes
    /\ storage' = [renderNotes(storage, statusInFlight.notes)
                      EXCEPT !.isRecording = statusInFlight.isRecording]
    /\ storageChanges' = Changed(storageChanges, storage, storage')
    /\ statusInFlight' = NoReply
    /\ UNCHANGED <<popupOpen, popupInbox>>
    /\ UNCHANGED <<isRecording, ws, wsAuthResolved, transcriptLines,
                   currentNotes, sockets, calls, offscreenDoc, capturing,
                   nEvents, broadcast, statusReply>>

\* the popup receives the oldest broadcast: handleBackgroundMessage.  On
\* TRANSCRIPT addTranscriptLine formats the line as the background does,
\* pushes it to the transcriptLines of the popup and persists that array;
\* on NOTES_UPDATE the document replaces currentNotes and renderNotes
\* persists it.  The popup gets an onChanged event of its own set when the
\* value changed.
handleBackgroundMessage ==
    /\ popupOpen
    /\ popupInbox # <<>>
    /\ popupInbox' = Tail(popupInbox)
    /\ IF Head(popupInbox).type = "TRANSCRIPT"
       THEN /\ popupLines' = Append(popupLines, Head(popupInbox).arg)
            /\ storage' = [storage EXCEPT !.transcript = popupLines']
            /\ UNCHANGED popupNotes
       ELSE IF Head(popupInbox).type = "NOTES_UPDATE"
       THEN /\ popupNotes' = Head(popupInbox).arg
            /\ storage' = renderNotes(storage, popupNotes')
            /\ UNCHANGED popupLines
       ELSE UNCHANGED <<popupLines, popupNotes, storage>>
    /\ storageChanges' = Changed(storageChanges, storage, storage')
    /\ UNCHANGED <<popupOpen, statusInFlight>>
    /\ UNCHANGED <<isRecording, ws, wsAuthResolved, transcriptLines,
                   currentNotes, sockets, calls, offscreenDoc, capturing,
                   nEvents, broadcast, statusReply>>

\* the popup receives the oldest chrome.storage.onChanged event: a changed
\* transcript replaces transcriptLines; changed notes that are not null
\* replace currentNotes and renderNotes persists them again
onChanged ==
    /\ popupOpen
    /\ storageChanges # <<>>
    /\ LET changes == Head(storageChanges)
       IN /\ popupLines' = IF "transcript" \in changes.keys
                           THEN changes.lines ELSE popupLines
          /\ popupNotes' = IF "notes" \in changes.keys /\ changes.notes # 0
                           THEN changes.notes ELSE popupNotes
          /\ storage' = IF "notes" \in changes.keys
                        THEN renderNotes(storage, changes.notes)
                        ELSE storage
    /\ storageChanges' = Changed(Tail(storageChanges), storage, storage')
    /\ UNCHANGED <<popupOpen, popupInbox, statusInFlight>>
    /\ UNCHANGED <<isRecording, ws, wsAuthResolved, transcriptLines,
                   currentNotes, sockets, calls, offscreenDoc, capturing,
                   nEvents, broadcast, statusReply>>

\* the popup is closed: its state and what was on its way to it are gone
closePopup ==
    /\ popupOpen
    /\ popupOpen' = FALSE
    /\ popupLines' = <<>>
    /\ popupNotes' = 0
    /\ popupInbox' = <<>>
    /\ storageChanges' = <<>>
    /\ statusInFlight' = NoReply
    /\ UNCHANGED <<sessionVars, capturing>>

\* ------------------------------------------------ specification
\* The commands of the popup and the events of the WebSocket, with the
\* offscreen document seen through the answers to START_CAPTURE and
\* STOP_CAPTURE only.
otherVars == <<captureVars, popupVars>>

Next ==
    \/ startRecording /\ UNCHANGED otherVars
    \/ stopRecording /\ UNCHANGED otherVars
    \/ \E c \in Calls, hasTab \in BOOLEAN, urlOk \in BOOLEAN :
          connectWebSocket(c, hasTab, urlOk) /\ UNCHANGED otherVars
    \/ \E s \in Sockets : onopen(s) /\ UNCHANGED otherVars
    \/ \E s \in Sockets : onerror(s) /\ UNCHANGED otherVars
    \/ \E s \in Sockets : onclose(s) /\ UNCHANGED otherVars
    \/ \E c \in Calls : connectTimeout(c) /\ UNCHANGED otherVars
    \/ \E s \in Sockets, ok \in BOOLEAN : handleAuthReply(s, ok) /\ UNCHANGED otherVars
    \/ \E s \in Sockets : handleTranscript(s) /\ UNCHANGED otherVars
    \/ \E s \in Sockets : handleNotes(s) /\ UNCHANGED otherVars
    \/ \E s \in Sockets : handleFinalNotes(s) /\ UNCHANGED otherVars
    \/ \E c \in Calls : setupOffscreenDocument(c) /\ UNCHANGED otherVars
    \/ \E c \in Calls : createDocument(c) /\ UNCHANGED otherVars
    \/ \E c \in Calls, ok \in BOOLEAN : getMediaStreamId(c, ok) /\ UNCHANGED otherVars
    \/ \E c \in Calls, out \in {"started", "failed", "rejected"} :
          startCaptureReply(c, out) /\ UNCHANGED otherVars
    \/ \E c \in Calls, ok \in BOOLEAN : stopCaptureReply(c, ok) /\ UNCHANGED otherVars
    \/ \E c \in Calls : finalNotesTimeout(c) /\ UNCHANGED otherVars
    \/ \E c \in Calls : closeOffscreenDocument(c) /\ UNCHANGED otherVars
    \/ \E c \in Calls : closeDocument(c) /\ UNCHANGED otherVars

Spec == Init /\ [][Next]_vars

\* ---------------------------------------- a session with status queries
\* The commands of one recording session (a start and a stop), one
\* connection and one frame of the service, together with GET_STATUS
\* queries at any moment.  A command may arrive while another one is in
\* progress, not while two are.
SessionCalls == 2
SessionSockets == 1
SessionEvents == 1

InSession ==
    /\ \A c \in Calls : c > SessionCalls => calls[c].pc = "idle"
    /\ \A s \in Sockets : s > SessionSockets => sockets[s].state = "none"
    /\ nEvents <= SessionEvents

PairwiseOverlap ==
    \A c, d \in Calls : InProgress(c) /\ InProgress(d) => c = d

NextSession ==
    \/ PairwiseOverlap /\ startRecording /\ InSession' /\ UNCHANGED otherVars
    \/ PairwiseOverlap /\ stopRecording /\ InSession' /\ UNCHANGED otherVars
    \/ \E c \in Calls, hasTab \in BOOLEAN, urlOk \in BOOLEAN :
          connectWebSocket(c, hasTab, urlOk) /\ InSession' /\ UNCHANGED otherVars
    \/ \E s \in Sockets : onopen(s) /\ UNCHANGED otherVars
    \/ \E s \in Sockets : onerror(s) /\ UNCHANGED otherVars
    \/ \E s \in Sockets : onclose(s) /\ UNCHANGED otherVars
    \/ \E c \in Calls : connectTimeout(c) /\ UNCHANGED otherVars
    \/ \E s \in Sockets, ok \in BOOLEAN : handleAuthReply(s, ok) /\ UNCHANGED otherVars
    \/ \E s \in Sockets : handleTranscript(s) /\ InSession' /\ UNCHANGED otherVars
    \/ \E s \in Sockets : handleNotes(s) /\ InSession' /\ UNCHANGED otherVars
    \/ \E s \in Sockets : handleFinalNotes(s) /\ InSession' /\ UNCHANGED otherVars
    \/ \E c \in Calls : setupOffscreenDocument(c) /\ UNCHANGED otherVars
    \/ \E c \in Calls : createDocument(c) /\ UNCHANGED otherVars
    \/ \E c \in Calls, ok \in BOOLEAN : getMediaStreamId(c, ok) /\ UNCHANGED otherVars
    \/ \E c \in Calls, out \in {"started", "failed", "rejected"} :
          startCaptureReply(c, out) /\ UNCHANGED otherVars
    \/ \E c \in Calls, ok \in BOOLEAN : stopCaptureReply(c, ok) /\ UNCHANGED otherVars
    \/ \E c \in Calls : finalNotesTimeout(c) /\ UNCHANGED otherVars
    \/ \E c \in Calls : closeOffscreenDocument(c) /\ UNCHANGED otherVars
    \/ \E c \in Calls : closeDocument(c) /\ UNCHANGED otherVars
    \/ GET_STATUS /\ UNCHANGED otherVars

SpecSession == Init /\ [][NextSession]_vars

\* ------------------------------------------------ the capture pipeline
\* The offscreen document from the moment startRecording has connected,
\* created the document and obtained the stream id of its first
\* START_CAPTURE: the messages START_CAPTURE and STOP_CAPTURE arrive in any
\* order, the chunks travel to the background, which forwards them on ws.
InitCapture ==
    /\ isRecording = FALSE
    /\ ws = 1
    /\ wsAuthResolved = TRUE
    /\ transcriptLines = <<>>
    /\ currentNotes = 0
    /\ storage = [transcript |-> <<>>, notes |-> 0, isRecording |-> FALSE]
    /\ sockets = [s \in Sockets |->
                    IF s = 1
                    THEN [state |-> "open", owner |-> 1, sent |-> <<"auth">>,
                          reply |-> "success", finals |-> 0,
                          listeners |-> <<>>]
                    ELSE NoSocket]
    /\ calls = [c \in Calls |->
                  IF c = 1
                  THEN [kind |-> "start", pc |-> "startCapture", sock |-> 1,
                        timer |-> "none", result |-> "none", notes |-> 0,
                        cap |-> "none", alone |-> TRUE]
                  ELSE NoCall]
    /\ offscreenDoc = TRUE
    /\ capturing = FALSE
    /\ nEvents = 0
    /\ broadcast = <<>>
    /\ statusReply = NoReply
    /\ captures = [k \in Captures |-> "idle"]
    /\ mediaStream = 0
    /\ mediaRecorder = 0
    /\ recordingInterval = 0
    /\ audioContext = FALSE
    /\ recorders = [r \in Recorders |-> NoRecorder]
    /\ liveStreams = {}
    /\ finalized = <<>>
    /\ audioData = <<>>
    /\ lastCaptureMsg = "none"
    /\ popupOpen = FALSE
    /\ popupLines = <<>>
    /\ popupNotes = 0
    /\ popupInbox = <<>>
    /\ storageChanges = <<>>
    /\ statusInFlight = NoReply

NextCapture ==
    \/ START_CAPTURE /\ UNCHANGED <<sessionVars, popupVars>>
    \/ \E k \in Captures, ok \in BOOLEAN :
          startCapture(k, ok) /\ UNCHANGED <<sessionVars, popupVars>>
    \/ \E r \in Recorders : rotate(r) /\ UNCHANGED <<sessionVars, popupVars>>
    \/ stopCapture /\ UNCHANGED <<sessionVars, popupVars>>
    \/ \E r \in Recorders : onTracksEnded(r) /\ UNCHANGED <<sessionVars, popupVars>>
    \/ \E r \in Recorders, hasData \in BOOLEAN :
          onstop(r, hasData) /\ UNCHANGED <<sessionVars, popupVars>>
    \/ \E r \in Recorders, ok \in BOOLEAN :
          blobToBase64(r, ok) /\ UNCHANGED <<sessionVars, popupVars>>
    \/ AUDIO_DATA /\ UNCHANGED <<offscreenVars, popupVars>>
    \/ \E s \in Sockets : onerror(s) /\ UNCHANGED otherVars

SpecCapture == InitCapture /\ [][NextCapture]_vars

\* ------------------------------------------------ a watched session
\* A session that is Recording (startRecording has just returned success)
\* with a popup that is opened and closed at any moment while transcript
\* and notes frames arrive.
InitPopup ==
    /\ isRecording = TRUE
    /\ ws = 1
    /\ wsAuthResolved = TRUE
    /\ transcriptLines = <<>>
    /\ currentNotes = 0
    /\ storage = [transcript |-> <<>>, notes |-> 0, isRecording |-> TRUE]
    /\ sockets = [s \in Sockets |->
                    IF s = 1
                    THEN [state |-> "open", owner |-> 1, sent |-> <<"auth">>,
                          reply |-> "success", finals |-> 0,
                          listeners |-> <<>>]
                    ELSE NoSocket]
    /\ calls = [c \in Calls |->
                  IF c = 1
                  THEN [kind |-> "start", pc |-> "done", sock |-> 1,
                        timer |-> "none", result |-> "success", notes |-> 0,
                        cap |-> "started", alone |-> TRUE]
                  ELSE NoCall]
    /\ offscreenDoc = TRUE
    /\ capturing = TRUE
    /\ nEvents = 0
    /\ broadcast = <<Message("STATUS", 1)>>
    /\ statusReply = NoReply
    /\ captures = [k \in Captures |-> "idle"]
    /\ mediaStream = 0
    /\ mediaRecorder = 0
    /\ recordingInterval = 0
    /\ audioContext = FALSE
    /\ recorders = [r \in Recorders |-> NoRecorder]
    /\ liveStreams = {}
    /\ finalized = <<>>
    /\ audioData = <<>>
    /\ lastCaptureMsg = "none"
    /\ popupOpen = FALSE
    /\ popupLines = <<>>
    /\ popupNotes = 0
    /\ popupInbox = <<>>
    /\ storageChanges = <<>>
    /\ statusInFlight = NoReply

NextPopup ==
    \/ \E s \in Sockets : handleTranscript(s) /\ notifyPopup /\ UNCHANGED captureVars
    \/ \E s \in Sockets : handleNotes(s) /\ notifyPopup /\ UNCHANGED captureVars
    \/ DOMContentLoaded /\ UNCHANGED captureVars
    \/ sendStatus /\ UNCHANGED captureVars
    \/ checkStatus /\ UNCHANGED captureVars
    \/ handleBackgroundMessage /\ UNCHANGED captureVars
    \/ onChanged /\ UNCHANGED captureVars
    \/ closePopup /\ UNCHANGED captureVars

SpecPopup == InitPopup /\ [][NextPopup]_vars

\* ------------------------------------------------ the audio relay
\* One session from the START_CAPTURE of its startRecording to the end of
\* its stopRecording, with the offscreen document inside: the offscreen
\* listener answers START_CAPTURE when startCapture is done and
\* STOP_CAPTURE when stopCapture has run, and the answer resumes the
\* command that awaits it; the offscreen document runs while it exists.
\* A STOP_RECORDING may overlap one other command.
NextRelay ==
    \/ /\ \A k \in Captures : captures[k] = "idle"
       /\ START_CAPTURE /\ UNCHANGED <<sessionVars, popupVars>>
    \/ \E k \in Captures, ok \in BOOLEAN :
          /\ startCapture(k, ok)
          /\ startCaptureReply(1, IF ok THEN "started" ELSE "rejected")
          /\ UNCHANGED popupVars
    \/ \E r \in Recorders :
          offscreenDoc /\ rotate(r) /\ UNCHANGED <<sessionVars, popupVars>>
    \/ \E r \in Recorders, hasData \in BOOLEAN :
          offscreenDoc /\ onstop(r, hasData) /\ UNCHANGED <<sessionVars, popupVars>>
    \/ \E r \in Recorders, ok \in BOOLEAN :
          offscreenDoc /\ blobToBase64(r, ok) /\ UNCHANGED <<sessionVars, popupVars>>
    \/ AUDIO_DATA /\ UNCHANGED <<offscreenVars, popupVars>>
    \/ PairwiseOverlap /\ stopRecording /\ UNCHANGED otherVars
    \/ \E c \in Calls :
          stopCapture /\ stopCaptureReply(c, TRUE) /\ UNCHANGED popupVars
    \/ \E c \in Calls :
          ~offscreenDoc /\ stopCaptureReply(c, FALSE) /\ UNCHANGED otherVars
    \/ \E c \in Calls : finalNotesTimeout(c) /\ UNCHANGED otherVars
    \/ \E s \in Sockets : handleFinalNotes(s) /\ UNCHANGED otherVars
    \/ \E c \in Calls : closeOffscreenDocument(c) /\ UNCHANGED otherVars
    \/ \E c \in Calls : closeDocument(c) /\ UNCHANGED otherVars

SpecRelay == InitCapture /\ [][NextRelay]_vars

\* ------------------------------------------------ the frames of the service
\* One session from the START_CAPTURE of its startRecording to the end of
\* its stopRecording, with every frame the service sends on an
\* authenticated connection and the heartbeat.  A STOP_RECORDING may
\* overlap one other command.
NextFrames ==
    \/ \E out \in {"started", "failed", "rejected"} :
          startCaptureReply(1, out) /\ UNCHANGED otherVars
    \/ \E s \in Sockets : handleTranscript(s) /\ UNCHANGED otherVars
    \/ \E s \in Sockets : handleNotes(s) /\ UNCHANGED otherVars
    \/ \E s \in Sockets, apiKey \in BOOLEAN :
          handleError(s, apiKey) /\ UNCHANGED otherVars
    \/ ping /\ UNCHANGED otherVars
    \/ \E s \in Sockets : handlePong(s) /\ UNCHANGED otherVars
    \/ \E s \in Sockets : onclose(s) /\ UNCHANGED otherVars
    \/ PairwiseOverlap /\ stopRecording /\ UNCHANGED otherVars
    \/ \E c \in Calls, ok \in BOOLEAN : stopCaptureReply(c, ok) /\ UNCHANGED otherVars
    \/ \E c \in Calls : finalNotesTimeout(c) /\ UNCHANGED otherVars
    \/ \E s \in Sockets : handleFinalNotes(s) /\ UNCHANGED otherVars
    \/ \E c \in Calls : closeOffscreenDocument(c) /\ UNCHANGED otherVars
    \/ \E c \in Calls : closeDocument(c) /\ UNCHANGED otherVars

SpecFrames == InitCapture /\ [][NextFrames]_vars

TypeOK ==
    /\ isRecording \in BOOLEAN
    /\ ws \in 0..MaxSockets
    /\ wsAuthResolved \in BOOLEAN
    /\ currentNotes \in 0..MaxEvents
    /\ nEvents \in 0..MaxEvents
    /\ offscreenDoc \in BOOLEAN
    /\ capturing \in BOOLEAN
    /\ \A c \in Calls : calls[c].kind \in {"none", "start", "stop"}
    /\ \A s \in Sockets : sockets[s].state \in {"none", "connecting", "open", "closed"}
    /\ \A i \in 1..Len(broadcast) :
          broadcast[i].type \in {"STATUS", "CONNECTION_STATUS", "ERROR",
                                 "TRANSCRIPT", "NOTES_UPDATE"}
    /\ statusReply.connected \in {"none", "null", "true", "false"}
    /\ \A k \in Captures : captures[k] \in {"idle", "getUserMedia", "done", "failed"}
    /\ mediaStream \in 0..MaxCaptures
    /\ mediaRecorder \in 0..MaxRecorders
    /\ recordingInterval \in 0..MaxRecorders
    /\ audioContext \in BOOLEAN
    /\ \A r \in Recorders :
          /\ recorders[r].state \in {"none", "recording", "inactive"}
          /\ recorders[r].timer \in {"none", "pending", "fired", "cleared"}
          /\ recorders[r].chunk \in {"none", "queued", "encoding", "sent", "dropped"}
    /\ liveStreams \subseteq Captures
    /\ lastCaptureMsg \in {"none", "START_CAPTURE", "STOP_CAPTURE"}
    /\ popupOpen \in BOOLEAN
    /\ popupNotes \in 0..MaxEvents
    /\ \A i \in 1..Len(storageChanges) : storageChanges[i].keys # {}

\* ------------------------------------------------ properties
\* call c has never overlapped another command: nothing was in progress
\* when it arrived and nothing has arrived since
Isolated(c) ==
    /\ calls[c].alone
    /\ \A d \in Calls : d > c => calls[d].pc = "idle"

\* call c takes the step that returns its result
Returns(c) == calls[c].pc # "done" /\ calls'[c].pc = "done"

\* C1: a START_RECORDING that arrives while an earlier startRecording has
\* not returned is rejected with 'Already recording' (and so opens no
\* second WebSocket and sends no second START_CAPTURE).
C1_StartDuringStartRejected ==
    [][\A c \in Calls :
          ( /\ calls[c].pc = "idle" /\ calls'[c].kind = "start"
            /\ \E d \in Calls : calls[d].kind = "start" /\ InProgress(d) )
          => calls'[c].result = "AlreadyRecording"]_vars

\* C2: a STOP_RECORDING or START_RECORDING that arrives while an earlier
\* stopRecording is in progress is rejected outright: it returns at its
\* guard and touches nothing.
C2_CommandDuringStopRejected ==
    [][\A c \in Calls :
          ( /\ calls[c].pc = "idle" /\ calls'[c].pc # "idle"
            /\ \E d \in Calls : calls[d].kind = "stop" /\ InProgress(d) )
          => /\ calls'[c].pc = "done"
             /\ calls'[c].result \in {"AlreadyRecording", "NotRecording"}]_vars

\* C3: every connect attempt is resolved once its 10 s timer has fired: no
\* startRecording is still awaiting connectWebSocket after the timeout.
C3_ConnectResolvedAtTimeout ==
    \A c \in Calls :
        ~(calls[c].kind = "start" /\ calls[c].pc = "connect"
          /\ calls[c].timer = "fired")

\* C4: a START_RECORDING that overlaps no other command, whose auth frame
\* the service answers with auth_success, gets past the connect (and so
\* can reach Recording), whatever sessions or connect attempts came before.
C4_LaterStartConnects ==
    \A c \in Calls :
        ( /\ calls[c].kind = "start" /\ Isolated(c)
          /\ calls[c].sock # 0
          /\ sockets[calls[c].sock].reply = "success" )
        => calls[c].pc # "connect"

\* C5: for every connect attempt, also that of a START_RECORDING that
\* overlaps no other command, an error frame about the API key that is
\* handled before the 10 s timer fires resolves the attempt as failed: the
\* attempt is not left pending with the timer still to come.
C5_AuthErrorFailsConnect ==
    \A c \in Calls :
        ( /\ calls[c].kind = "start" /\ Isolated(c)
          /\ calls[c].pc = "connect"
          /\ sockets[calls[c].sock].reply = "error" )
        => calls[c].timer # "pending"

\* C6: when a stop returns success, the persisted notes are the final
\* notes it received, and null when its final-notes wait timed out.
C6_PersistedNotesAfterStop ==
    [][\A c \in Calls :
          ( /\ calls[c].kind = "stop" /\ Returns(c)
            /\ calls'[c].result = "success" )
          => /\ calls'[c].timer = "cleared" => storage'.notes = calls'[c].notes
             /\ calls'[c].timer = "fired" => storage'.notes = 0]_vars

\* C7: a stopRecording that passed its guard always terminates: it is
\* never left awaiting final notes with neither a listener that can
\* resolve the wait nor a timer that will.
C7_StopNeverHangs ==
    \A c \in Calls :
        ~(calls[c].kind = "stop" /\ calls[c].pc = "waitFinal"
          /\ calls[c].timer = "cleared")

\* C8: whenever a stop on a Recording session returns, with success or
\* with an error caught inside stop, the WebSocket is closed and released
\* and the capture pipeline is released.
C8_StopReleasesResources ==
    [][\A c \in Calls :
          ( /\ calls[c].kind = "stop" /\ Returns(c)
            /\ calls'[c].result \in {"success", "error"} )
          => /\ ws' = 0
             /\ ~offscreenDoc'
             /\ ~capturing']_vars

\* C9: at most one stop frame is sent on a connection.
C9_OneStopFrame ==
    \A s \in Sockets : Count(sockets[s].sent, "stop") <= 1

\* C10: when the offscreen START_CAPTURE handler answers {success: false},
\* startRecording does not return success and isRecording is not set by it.
C10_CaptureFailureFailsStart ==
    \A c \in Calls :
        (calls[c].kind = "start" /\ calls[c].cap = "failed")
        => calls[c].result # "success"

\* C13: the orchestrator keeps the persisted recording flag in step with
\* the session, with no observer attached: whenever no start or stop is in
\* progress, the persisted isRecording equals the in-memory isRecording (so
\* it is false after a stop has returned).
C13_PersistedFlagTracksSession ==
    (\A c \in Calls : ~InProgress(c)) => storage.isRecording = isRecording

\* C16: a STOP_RECORDING received while isRecording is false (and no other
\* command is in progress) fails with 'Not recording' and leaves no stray
\* capture behind: after it no offscreen document and no running capture
\* remain.
C16_StopWhenIdleResetsCapture ==
    [][\A c \in Calls :
          ( /\ calls[c].pc = "idle" /\ calls'[c].kind = "stop"
            /\ calls'[c].alone /\ ~isRecording )
          => /\ calls'[c].result = "NotRecording"
             /\ ~offscreenDoc'
             /\ ~capturing']_vars

\* C19: the START_RECORDING that immediately follows one that failed with
\* 'No active tab', with an active tab and a service that answers its auth
\* frame with auth_success, gets past the connect (and so can reach
\* Recording).
C19_StartAfterNoActiveTab ==
    \A c \in Calls :
        ( /\ c > 1 /\ calls[c].kind = "start" /\ Isolated(c)
          /\ calls[c - 1].result = "NoActiveTab" /\ calls[c - 1].alone
          /\ calls[c].sock # 0
          /\ sockets[calls[c].sock].reply = "success" )
        => calls[c].pc # "connect"

\* C20: when the wait of a connect attempt ends without auth_success on
\* its connection (the socket failed, the service refused the API key, or
\* the 10 s timer fired), startRecording returns 'Failed to connect to API
\* server' and that step leaves isRecording, the offscreen document, the
\* capture and the in-memory and persisted transcript and notes untouched.
C20_ConnectFailureAborts ==
    [][\A c \in Calls :
          ( /\ calls[c].kind = "start" /\ calls[c].pc = "connect"
            /\ calls[c].timer = "pending" /\ calls'[c].timer # "pending"
            /\ sockets'[calls[c].sock].reply # "success" )
          => /\ calls'[c].pc = "done"
             /\ calls'[c].result = "ConnectionFailed"
             /\ UNCHANGED <<isRecording, offscreenDoc, capturing,
                            transcriptLines, currentNotes, storage>>]_vars

\* C14: a WebSocket error or close event while isRecording is true
\* broadcasts ERROR or CONNECTION_STATUS connected:false, changes none of
\* isRecording, transcriptLines, currentNotes, and starts no connection
\* (ws keeps its value, no socket is created, no call enters the connect
\* wait); and a STOP_RECORDING that overlaps no other command and whose
\* STOP_CAPTURE was answered returns success and ends the session, also
\* when the socket was lost before or during it.
C14_SocketLossKeepsRecording ==
    [][/\ \A s \in Sockets :
            ( /\ isRecording
              /\ sockets[s].state \in {"connecting", "open"}
              /\ sockets'[s].state = "closed"
              /\ ws' = ws )
            => /\ \E i \in 1..Len(broadcast') :
                     /\ broadcast'[i].type \in {"ERROR", "CONNECTION_STATUS"}
                     /\ broadcast'[i].arg = 0
               /\ UNCHANGED <<isRecording, transcriptLines, currentNotes>>
               /\ \A t \in Sockets :
                     sockets[t].state = "none" => sockets'[t].state = "none"
               /\ \A c \in Calls :
                     calls'[c].pc = "connect" => calls[c].pc = "connect"
       /\ \A c \in Calls :
            ( /\ calls[c].kind = "stop" /\ Isolated(c)
              /\ calls[c].pc # "stopCapture" /\ Returns(c) )
            => /\ calls'[c].result = "success"
               /\ ~isRecording']_vars

\* a session that lost its socket while Recording and was then stopped: the
\* stop found no OPEN socket, skipped the final-notes wait and succeeded
C14_Witness ==
    \E c \in Calls :
        /\ c > 1
        /\ calls[c - 1].kind = "start" /\ calls[c - 1].alone
        /\ calls[c - 1].result = "success"
        /\ calls[c].kind = "stop" /\ Isolated(c)
        /\ calls[c].result = "success" /\ calls[c].sock = 0
        /\ ~isRecording

\* C15: a START_RECORDING that arrives while isRecording is true returns
\* 'Already recording' at once, and that step changes none of isRecording,
\* ws, the sockets (nothing is sent, none is created), transcriptLines,
\* currentNotes, the persisted data, the offscreen document and its
\* capture, nor any other call (so no START_CAPTURE / STOP_CAPTURE is sent).
C15_StartWhileRecordingRejected ==
    [][\A c \in Calls :
          ( /\ isRecording
            /\ calls[c].pc = "idle" /\ calls'[c].kind = "start" )
          => /\ calls'[c].pc = "done"
             /\ calls'[c].result = "AlreadyRecording"
             /\ \A d \in Calls : d # c => calls'[d] = calls[d]
             /\ UNCHANGED <<isRecording, ws, sockets, transcriptLines,
                            currentNotes, storage, offscreenDoc,
                            capturing>>]_vars

\* a start was rejected while the session of an earlier start was Recording
C15_Witness ==
    \E c \in Calls :
        /\ calls[c].kind = "start" /\ calls[c].result = "AlreadyRecording"
        /\ isRecording

\* C17: GET_STATUS can be handled in every state, and the task that answers
\* it replies with isRecording, connected (true exactly when ws is an OPEN
\* socket), transcriptLines and currentNotes as they are, and changes no
\* variable of the orchestrator and nothing persisted.
C17_StatusAlwaysAnswered ==
    /\ [](ENABLED GET_STATUS)
    /\ [][statusReply' # NoReply
          => /\ statusReply'.isRecording = isRecording
             /\ statusReply'.transcript = transcriptLines
             /\ statusReply'.notes = currentNotes
             /\ (statusReply'.connected = "true")
                   <=> (ws # 0 /\ sockets[IF ws = 0 THEN 1 ELSE ws].state = "open")
             /\ UNCHANGED <<isRecording, ws, wsAuthResolved,
                            transcriptLines, currentNotes, storage, sockets,
                            calls, offscreenDoc, capturing, nEvents>>]_vars

\* a status query answered while a stopRecording is in its final-notes wait
C17_Witness ==
    /\ statusReply # NoReply
    /\ statusReply.isRecording /\ statusReply.connected = "true"
    /\ \E c \in Calls : calls[c].pc = "waitFinal" /\ calls[c].timer = "pending"

\* C11: in the offscreen document at most one MediaRecorder is in a state
\* other than inactive and at most one rotation timer is pending, whatever
\* START_CAPTURE and STOP_CAPTURE messages and timer firings came before.
C11_OneRecorderOneTimer ==
    /\ Cardinality({r \in Recorders : recorders[r].state = "recording"}) <= 1
    /\ Cardinality({r \in Recorders : recorders[r].timer = "pending"}) <= 1

\* the place of recorder r in the order of finalization, 0 when it was not
\* stopped
Finalized(r) ==
    IF \E i \in 1..Len(finalized) : finalized[i] = r
    THEN CHOOSE i \in 1..Len(finalized) : finalized[i] = r
    ELSE 0

\* C18: the audio frames sent on a socket are in the order in which their
\* chunks were finalized, each chunk at most once, and the chunk of every
\* AUDIO_DATA message that the background has handled is on the socket
\* that is still OPEN.
C18_AudioFramesInChunkOrder ==
    /\ \A s \in Sockets : \A i, j \in 1..Len(sockets[s].sent) :
          \A r, q \in Recorders :
             ( /\ i < j
               /\ sockets[s].sent[i] = AudioFrame(r)
               /\ sockets[s].sent[j] = AudioFrame(q) )
             => Finalized(r) < Finalized(q)
    /\ \A r \in Recorders :
          ( /\ recorders[r].chunk = "sent"
            /\ \A i \in 1..Len(audioData) : audioData[i] # r
            /\ ws # 0 /\ sockets[IF ws = 0 THEN 1 ELSE ws].state = "open" )
          => Count(sockets[ws].sent, AudioFrame(r)) = 1

\* C12: the persisted transcript is the sequence of the transcript events
\* received since the clear of the session, in arrival order, each once
\* (the background pushes every event it receives to transcriptLines).
C12_PersistedTranscriptIsReceived ==
    storage.transcript = transcriptLines

\* ------------------------------------------------ C21
\* the four globals of the offscreen document are null
AllNull ==
    /\ mediaRecorder = 0
    /\ mediaStream = 0
    /\ ~audioContext
    /\ recordingInterval = 0

\* C21: stopCapture can be called in every state of the offscreen document,
\* before any START_CAPTURE too; it leaves mediaRecorder, mediaStream,
\* audioContext and recordingInterval null; and called when they are null
\* (a second call in a row) it changes nothing of the offscreen document:
\* no recorder is stopped, so no chunk is emitted.
C21_StopCaptureIdempotent ==
    /\ [](offscreenDoc => ENABLED stopCapture)
    /\ [][stopCapture => AllNull']_vars
    /\ [][AllNull /\ stopCapture
             => UNCHANGED <<captures, mediaStream, mediaRecorder,
                            recordingInterval, audioContext, recorders,
                            liveStreams, finalized, audioData, capturing>>]_vars

\* stopCapture has stopped a capture that was recording
C21_Witness ==
    /\ AllNull
    /\ \E r \in Recorders : /\ recorders[r].timer = "cleared"
                            /\ recorders[r].state = "inactive"

\* ------------------------------------------------ C22
\* C22: once STOP_CAPTURE was handled and until the next START_CAPTURE is
\* received, no rotation timer is pending and no new MediaRecorder is
\* started, also when STOP_CAPTURE was handled while a startCapture was
\* waiting for its media stream.
C22_NoEncoderAfterStopCapture ==
    /\ [](lastCaptureMsg = "STOP_CAPTURE"
             => \A r \in Recorders : recorders[r].timer # "pending")
    /\ [][lastCaptureMsg = "STOP_CAPTURE" /\ lastCaptureMsg' = "STOP_CAPTURE"
             => \A r \in Recorders :
                   recorders[r].state = "none" => recorders'[r].state = "none"]_vars

\* ------------------------------------------------ C23
\* call c is a startRecording that takes the step returning success
StartSucceeds(c) ==
    calls[c].kind = "start" /\ Returns(c) /\ calls'[c].result = "success"

\* a stopRecording has returned success and no session is Recording
SessionEnded ==
    /\ ~isRecording
    /\ \E c \in Calls : /\ calls[c].kind = "stop" /\ calls[c].pc = "done"
                        /\ calls[c].result = "success"

\* C23: the step in which a startRecording succeeds leaves the in-memory
\* and the persisted transcript empty, the notes null and isRecording
\* persisted as true; and once a session was ended by a stop, the persisted
\* transcript is changed by no step (of a stop, of a start that fails, of
\* anything else) other than the success of the next start.
C23_TranscriptKeptUntilNextStart ==
    /\ [][\A c \in Calls : StartSucceeds(c) =>
             /\ transcriptLines' = <<>> /\ currentNotes' = 0
             /\ storage' = [transcript |-> <<>>, notes |-> 0,
                            isRecording |-> TRUE]]_vars
    /\ [][SessionEnded /\ storage'.transcript # storage.transcript
             => \E c \in Calls : StartSucceeds(c)]_vars

\* ------------------------------------------------ C24
\* a final_notes frame is received on the socket on which call c waits
\* for it, before the 10 s timer of c has fired
FinalNotesInTime(c) ==
    /\ calls[c].kind = "stop" /\ calls[c].pc = "waitFinal"
    /\ calls[c].timer = "pending"
    /\ sockets'[calls[c].sock].finals = sockets[calls[c].sock].finals + 1

\* C24: a stopRecording that receives a final_notes frame within its wait
\* goes on with the notes document of that frame and returns it; one whose
\* timer fired, or that found the connection not OPEN, returns notes null;
\* and when it returns success the persisted transcript is the sequence of
\* the transcript lines received.
C24_StopReturnsFinalNotes ==
    /\ [][\A c \in Calls : FinalNotesInTime(c) =>
             /\ calls'[c].pc = "stopGetContexts"
             /\ calls'[c].notes = nEvents']_vars
    /\ [][\A c \in Calls :
             ( /\ calls[c].kind = "stop" /\ Returns(c)
               /\ calls'[c].result = "success" )
             => /\ calls'[c].timer \in {"fired", "none"} => calls'[c].notes = 0
                /\ calls'[c].timer = "cleared" => calls'[c].notes # 0
                /\ storage'.transcript = transcriptLines']_vars

\* ------------------------------------------------ C25
\* C25: after any sequence of notes events during Recording, currentNotes
\* and the persisted notes are both the document of the notes event that
\* was received last (a document is the five fields of one frame, so none
\* of its fields comes from an earlier document).
C25_NotesAreLastReceived ==
    /\ [][\A s \in Sockets : handleNotes(s) =>
             currentNotes' = nEvents' /\ storage'.notes = nEvents']_vars
    /\ [](storage.notes = currentNotes)

\* ------------------------------------------------ C26
\* C26: connectWebSocket of call c yields true only in the step that
\* handles auth_success on the socket of c, and only when no failure
\* outcome came first: its 10 s timer has not fired and its socket has had
\* no error.  What a startRecording has returned is changed by no later
\* event.
C26_ConnectDecidedOnce ==
    /\ [][\A c \in Calls :
             ( /\ calls[c].kind = "start" /\ calls[c].pc = "connect"
               /\ calls'[c].pc = "getContexts" )
             => /\ calls[c].timer = "pending"
                /\ sockets[calls[c].sock].reply = "none"
                /\ sockets'[calls[c].sock].reply = "success"
                /\ sockets'[calls[c].sock].state = "open"]_vars
    /\ [][\A c \in Calls :
             calls[c].kind = "start" /\ calls[c].pc = "done"
             => calls'[c] = calls[c]]_vars

\* ------------------------------------------------ C27
\* the WebSocket objects that are connecting or open
LiveSockets == {s \in Sockets : sockets[s].state \in {"connecting", "open"}}

\* C27: there is never more than one WebSocket that is connecting or open,
\* and there is none while isRecording is false and no startRecording or
\* stopRecording is in progress.
C27_AtMostOneConnection ==
    /\ Cardinality(LiveSockets) <= 1
    /\ (~isRecording /\ \A c \in Calls : ~InProgress(c)) => LiveSockets = {}

\* ------------------------------------------------ C28
\* frame f is an audio frame
IsAudio(f) == \E r \in Recorders : f = AudioFrame(r)

\* C28 as stated: on no connection an audio frame follows the stop frame.
C28_NoAudioAfterStop ==
    \A s \in Sockets : \A i, j \in 1..Len(sockets[s].sent) :
        (i < j /\ sockets[s].sent[i] = "stop") => ~IsAudio(sockets[s].sent[j])

\* C28 as amended: a chunk that reaches the background while the
\* connection in ws is open is forwarded on it, after the stop frame too
\* (it is not dropped); on a connection that was closed nothing is sent.
C28_TrailingChunkForwardedWhileOpen ==
    /\ [][( /\ audioData # <<>> /\ audioData' = Tail(audioData)
            /\ ws # 0 /\ sockets[ws].state = "open" )
          => sockets'[ws].sent =
                Append(sockets[ws].sent, AudioFrame(Head(audioData)))]_vars
    /\ [][\A s \in Sockets :
             sockets[s].state = "closed" => sockets'[s].sent = sockets[s].sent]_vars

\* the trailing chunk was forwarded after the stop frame, and the
\* connection has been closed since
C28_Witness ==
    \E s \in Sockets :
        /\ sockets[s].state = "closed"
        /\ \E i, j \in 1..Len(sockets[s].sent) :
              i < j /\ sockets[s].sent[i] = "stop" /\ IsAudio(sockets[s].sent[j])

\* ------------------------------------------------ C29
\* C29: the clear of a successful start loses no event of the new session.
\* For the first command of a run, before which there is no session data
\* at all, every transcript line and notes document present when the start
\* succeeds was received on the new connection after its auth_success, so
\* the step that returns success removes nothing from transcriptLines,
\* currentNotes and the persisted state.
C29_NoEventLostToClear ==
    [][( /\ StartSucceeds(1)
         /\ \A d \in Calls : d > 1 => calls[d].pc = "idle" )
       => /\ transcriptLines' = transcriptLines
          /\ currentNotes' = currentNotes
          /\ storage'.transcript = storage.transcript
          /\ storage'.notes = storage.notes]_vars

\* ------------------------------------------------ C30
\* C30: an error frame received on an authenticated connection is
\* broadcast as ERROR and changes nothing else: isRecording, ws and the
\* sockets, transcriptLines, currentNotes, the persisted state, the
\* commands in progress; a pong frame broadcasts nothing and changes
\* nothing.
C30_ErrorAndPongChangeNothing ==
    /\ [][\A s \in Sockets : \A apiKey \in BOOLEAN :
             handleError(s, apiKey) =>
                 /\ broadcast' = <<Message("ERROR", 0)>>
                 /\ UNCHANGED <<isRecording, ws, wsAuthResolved, sockets,
                                transcriptLines, currentNotes, storage,
                                calls, offscreenDoc, capturing>>]_vars
    /\ [][\A s \in Sockets :
             handlePong(s) =>
                 /\ broadcast' = <<>>
                 /\ UNCHANGED <<isRecording, ws, wsAuthResolved, sockets,
                                transcriptLines, currentNotes, storage,
                                calls, offscreenDoc, capturing>>]_vars

\* an error frame was handled while Recording: the ERROR broadcast went
\* out, the session is Recording and its connection is open
C30_Witness ==
    /\ broadcast = <<Message("ERROR", 0)>>
    /\ isRecording
    /\ ws # 0 /\ sockets[ws].state = "open"
    /\ transcriptLines # <<>>

====
